---- MODULE Spec2Model ----
(***************************************************************************)
(* PDF Batch Summarizer: the state of the App component (src/App.tsx) and  *)
(* the two model clients (geminiService, volcanoService).                  *)
(*                                                                         *)
(* A JavaScript string is a sequence of tokens; the empty string is <<>>.  *)
(* Array indices are 1-based here: file i of the source is file i+1.       *)
(***************************************************************************)
EXTENDS Integers, Sequences, FiniteSets, TLC

VARIABLES
    files,          \* useState<File[]>                      App.tsx:22
    prompt,         \* useState<string>                      App.tsx:23
    apiProvider,    \* useState<ApiProvider>                 App.tsx:24
    selectedModel,  \* useState<string>                      App.tsx:25
    volcanoCreds,   \* useState({ apiKey })                  App.tsx:26
    results,        \* useState<SummaryResult[]>, the ledger App.tsx:27
    isProcessing,   \* useState<boolean>                     App.tsx:28
    globalError,    \* useState<string>, the notice          App.tsx:29
    apiKeyMissing,  \* useState<boolean>, set on mount       App.tsx:30
    tasks,          \* the running invocations of handleGenerate: closure, loop index, awaited call
    download,       \* the archive handed to the browser by the step just taken
    batch           \* history of the batch started last (not program state)

vars == <<files, prompt, apiProvider, selectedModel, volcanoCreds, results,
          isProcessing, globalError, apiKeyMissing, tasks, download, batch>>

----------------------------------------------------------------------------
(* Bounds *)

\* the largest number of files a chosen folder holds
MaxFiles == 2

----------------------------------------------------------------------------
(* Strings *)

Whitespace == {" ", "\n\n"}

RECURSIVE TrimStart(_)
TrimStart(s) ==
    IF s # <<>> /\ Head(s) \in Whitespace THEN TrimStart(Tail(s)) ELSE s

RECURSIVE TrimEnd(_)
TrimEnd(s) ==
    IF s # <<>> /\ s[Len(s)] \in Whitespace
    THEN TrimEnd(SubSeq(s, 1, Len(s) - 1)) ELSE s

\* String.prototype.trim
Trim(s) == TrimEnd(TrimStart(s))

\* String.prototype.startsWith
StartsWith(s, prefix) ==
    Len(s) >= Len(prefix) /\ SubSeq(s, 1, Len(prefix)) = prefix

RECURSIVE Join(_, _)
\* Array.prototype.join on an array of strings
Join(items, sep) ==
    IF items = <<>> THEN <<>>
    ELSE IF Len(items) = 1 THEN items[1]
    ELSE items[1] \o sep \o Join(Tail(items), sep)

\* the JavaScript value undefined, where a string was expected
Undefined == <<"\\undefined">>

\* enum ProcessingStatus
IDLE == "idle"
PROCESSING == "processing"
SUCCESS == "success"
ERROR == "error"

\* a thrown value: an Error object with its message, or something else
ErrorOf(message) == [isError |-> TRUE, message |-> message]
NonError == [isError |-> FALSE, message |-> <<>>]

----------------------------------------------------------------------------
(* The environment: files on disk, PDF documents, the two remote services *)

PdfType == "application/pdf"

\* the files below the folders the user can choose, in the browser's listing order;
\* two PDFs in different folders share a name and a timestamp
FilePool ==
    << [path |-> "x/", name |-> <<"b", ".pdf">>, lastModified |-> 2, type |-> PdfType],
       [path |-> "x/", name |-> <<"a", ".pdf">>, lastModified |-> 1, type |-> PdfType],
       [path |-> "x/", name |-> <<"n", ".txt">>, lastModified |-> 3, type |-> "text/plain"],
       [path |-> "y/", name |-> <<"a", ".pdf">>, lastModified |-> 1, type |-> PdfType] >>

\* the files of FilePool at the positions in chosen, in listing order
Listed(chosen) ==
    LET upTo[n \in 0..Len(FilePool)] ==
            IF n = 0 THEN <<>>
            ELSE IF n \in chosen THEN Append(upTo[n - 1], FilePool[n])
            ELSE upTo[n - 1]
    IN  upTo[Len(FilePool)]

\* the folders the user can choose (the input selects a directory), as positions in
\* FilePool: an empty folder, y/, two PDFs of different names, two PDFs of one name,
\* a PDF beside a text file, the three PDFs, and the root
Folders == { {}, {4}, {1, 2}, {2, 4}, {2, 3}, {1, 2, 4}, {1, 2, 3, 4} }

\* a FileList: the files of the chosen folder, in listing order
FileLists ==
    { Listed(chosen) : chosen \in { c \in Folders : Cardinality(c) <= MaxFiles } }

DefaultPrompt == <<"Summarize this document in three key bullet points.">>
Prompts == { DefaultPrompt, <<" ">> }
ApiKeys == { <<>>, <<"k">> }

\* the message of an Error object raised outside this code (network layer, JSON
\* parser, remote error body)
EnvMessage == <<"Failed to fetch">>

\* what pdf.js finds in a file: pages of text items, or a rejected promise
PdfDocuments ==
    { <<>>,                         \* no pages
      << <<>>, << <<" ">> >> >>,    \* a page without text items, a page holding a space
      << << <<"t">>, <<"u">> >> >> }\* one page, two text items

ExtractionOutcomes ==
    { [kind |-> "document", pages |-> d, error |-> NonError] : d \in PdfDocuments }
    \cup { [kind |-> "throw", pages |-> <<>>, error |-> e]
           : e \in { ErrorOf(<<"Invalid PDF structure.">>), NonError } }

SummaryText == <<"Summary: no ", "Error", " found">>
MarkerText == <<"Error", ": xyz">>

\* what ai.models.generateContent does: a response with its text, or a rejection
GeminiOutcomes ==
    { [kind |-> "response", text |-> t, error |-> NonError]
      : t \in { SummaryText, <<>>, MarkerText, Undefined } }
    \cup { [kind |-> "throw", text |-> <<>>, error |-> e]
           : e \in { ErrorOf(EnvMessage), NonError } }

\* a response body: whether response.json() parses it, and the fields read from it
\* (syntaxError is what response.json() throws when it does not)
Malformed ==
    [parses |-> FALSE, syntaxError |-> ErrorOf(EnvMessage), errorMessage |-> Undefined,
     choices |-> <<>>]
Body(errorMessage, choices) ==
    [parses |-> TRUE, syntaxError |-> NonError, errorMessage |-> errorMessage,
     choices |-> choices]

\* what fetch does: a rejection, or a response with status and body
FetchOutcomes ==
    { [kind |-> "throw", ok |-> FALSE, status |-> 0, body |-> Malformed, error |-> e]
      : e \in { ErrorOf(EnvMessage), NonError } }
    \cup { [kind |-> "response", ok |-> FALSE, status |-> 500, body |-> b, error |-> NonError]
           : b \in { Malformed, Body(Undefined, <<>>), Body(EnvMessage, <<>>) } }
    \cup { [kind |-> "response", ok |-> TRUE, status |-> 200, body |-> b, error |-> NonError]
           : b \in { Malformed,
                     Body(Undefined, <<>>),
                     Body(Undefined, << <<>> >>),
                     Body(Undefined, << Undefined >>),
                     Body(Undefined, << SummaryText >>),
                     Body(Undefined, << MarkerText >>) } }

----------------------------------------------------------------------------
(* Pure functions of the source *)

\* parsePdf: the items of a page joined by a space, each page followed by a blank line
RECURSIVE ParsePdf(_)
ParsePdf(pages) ==
    IF pages = <<>> THEN <<>>
    ELSE Join(Head(pages), <<" ">>) \o <<"\n\n">> \o ParsePdf(Tail(pages))

\* constructFullPrompt
ConstructFullPrompt(pdfText, userPrompt) ==
    <<"Based on the following user request ... USER REQUEST: \"">> \o userPrompt
    \o <<"\" ... --- PDF CONTENT START ---">> \o pdfText \o <<"--- PDF CONTENT END ---">>

\* generateSummaryFromText, given what generateContent did
GenerateSummaryFromText(fullPrompt, modelName, outcome) ==
    IF outcome.kind = "response" THEN outcome.text
    ELSE IF outcome.error.isError
         THEN <<"Error", " during summary generation: ">> \o outcome.error.message
         ELSE <<"An unknown error occurred during summary generation.">>

\* volcanoService: the credential check made before anything is sent
VolcanoKeyMissing_never(creds) == FALSE

VolcanoKeyMissing(creds) == creds.apiKey = <<>>

\* a || b on strings: b when a is undefined or empty
OrElse(a, b) == IF a = Undefined \/ a = <<>> THEN b ELSE a

\* the try block of generateSummaryFromVolcano: the text returned, or the value thrown
VolcanoTry(outcome) ==
    IF outcome.kind = "throw" THEN [threw |-> TRUE, value |-> <<>>, error |-> outcome.error]
    ELSE IF ~outcome.ok THEN
        LET errorBody == IF outcome.body.parses THEN outcome.body ELSE Body(Undefined, <<>>)
            errorMessage == OrElse(errorBody.errorMessage,
                                   <<"API request failed with status ", ToString(outcome.status)>>)
        IN  [threw |-> TRUE, value |-> <<>>, error |-> ErrorOf(errorMessage)]
    ELSE IF ~outcome.body.parses THEN
        [threw |-> TRUE, value |-> <<>>, error |-> outcome.body.syntaxError]
    ELSE IF outcome.body.choices = <<>> \/ OrElse(outcome.body.choices[1], <<>>) = <<>> THEN
        [threw |-> TRUE, value |-> <<>>,
         error |-> ErrorOf(<<"Received an invalid response structure from the API.">>)]
    ELSE [threw |-> FALSE, value |-> outcome.body.choices[1], error |-> NonError]

\* generateSummaryFromVolcano, given what fetch did (not consulted without a key)
GenerateSummaryFromVolcano(fullPrompt, creds, outcome) ==
    IF VolcanoKeyMissing(creds)
    THEN <<"Error", ": Volcano Engine API Key is required but was not provided.">>
    ELSE LET r == VolcanoTry(outcome) IN
         IF ~r.threw THEN r.value
         ELSE IF r.error.isError
              THEN <<"Error", " during Volcano Engine summary generation: ">> \o r.error.message
              ELSE <<"An unknown error occurred during Volcano Engine summary generation.">>

\* as PdfFiles, without the type filter
PdfFiles_unfiltered(allFiles) == allFiles

\* handleFileSelect: the PDF-typed files of the selection, in order
PdfFiles(allFiles) == SelectSeq(allFiles, LAMBDA file : file.type = PdfType)

\* as Rejected, with the prompt tested without trim()
Rejected_untrimmed(fs, p) == Len(fs) = 0 \/ p = <<>>

\* handleGenerate: the precondition checked first
Rejected(fs, p) == Len(fs) = 0 \/ Trim(p) = <<>>

\* handleGenerate: the id of a ledger entry
ResultId(file) == file.name \o <<"-", ToString(file.lastModified)>>

\* as InitialResults, keeping the entries the ledger already holds
InitialResults_keepsOld(fs) ==
    [i \in 1..Len(fs) |->
        IF i \in DOMAIN results THEN results[i]
        ELSE [id |-> ResultId(fs[i]), fileName |-> fs[i].name, content |-> <<>>,
              status |-> PROCESSING]]

\* handleGenerate: the ledger a batch starts with (no error field)
InitialResults(fs) ==
    [i \in 1..Len(fs) |->
        [id |-> ResultId(fs[i]), fileName |-> fs[i].name, content |-> <<>>,
         status |-> PROCESSING]]

\* { ...res, status: SUCCESS, content: summary }
SuccessPatch(res, summary) == [res EXCEPT !.status = SUCCESS, !.content = summary]

\* { ...res, status: ERROR, error: errorMessage }
ErrorPatch(res, errorMessage) ==
    ("error" :> errorMessage) @@ [res EXCEPT !.status = ERROR]

\* as MapSuccess, patching the entry after entry i
MapSuccess_nextIndex(prev, i, summary) ==
    [j \in 1..Len(prev) |-> IF j = i + 1 THEN SuccessPatch(prev[j], summary) ELSE prev[j]]

\* prev.map((res, index) => index === i ? patched : res), success branch
MapSuccess(prev, i, summary) ==
    [j \in 1..Len(prev) |-> IF j = i THEN SuccessPatch(prev[j], summary) ELSE prev[j]]

\* as MapError, with filter in place of map: the failed entry is dropped
MapError_filter(prev, i, errorMessage) ==
    SubSeq(prev, 1, i - 1) \o SubSeq(prev, i + 1, Len(prev))

\* as MapError, with index <= i in place of index === i
MapError_upToIndex(prev, i, errorMessage) ==
    [j \in 1..Len(prev) |-> IF j <= i THEN ErrorPatch(prev[j], errorMessage) ELSE prev[j]]

\* prev.map((res, index) => index === i ? patched : res), catch branch
MapError(prev, i, errorMessage) ==
    [j \in 1..Len(prev) |-> IF j = i THEN ErrorPatch(prev[j], errorMessage) ELSE prev[j]]

\* catch (error): error instanceof Error ? error.message : 'An unknown error occurred'
ErrorMessage(error) ==
    IF error.isError THEN error.message ELSE <<"An unknown error occurred">>

\* as IsErrorMarker, with === in place of startsWith
IsErrorMarker_wholeText(summary) == summary = <<"Error">>

\* summary.startsWith("Error")
IsErrorMarker(summary) == StartsWith(summary, <<"Error">>)

\* as LoopContinues, with the try/catch around the loop: a failure ends it
LoopContinues_stopsOnFailure(t, threw) == ~threw /\ t.i < Len(t.files)

\* as LoopContinues, with i < files.length - 1: the last file is never reached
LoopContinues_offByOne(t, threw) == t.i < Len(t.files) - 1

\* as LoopContinues, reading the files selected now instead of the closure's
LoopContinues_currentFiles(t, threw) == t.i < Len(files)

\* the for loop's condition after file i: another file follows
LoopContinues(t, threw) == t.i < Len(t.files)

\* as IsReadyToGenerate, without the tests of the provider's credential
IsReadyToGenerate_noCredential == ~(Len(files) = 0 \/ Trim(prompt) = <<>>)

\* isReadyToGenerate
IsReadyToGenerate ==
    IF Len(files) = 0 \/ Trim(prompt) = <<>> THEN FALSE
    ELSE IF apiProvider = "gemini" THEN ~apiKeyMissing
    ELSE IF apiProvider = "volcano" THEN volcanoCreds.apiKey # <<>>
    ELSE FALSE

\* as GenerateDisabled, without the isProcessing test
GenerateDisabled_whileIdleOnly == ~IsReadyToGenerate

\* the generate button's disabled attribute
GenerateDisabled == ~IsReadyToGenerate \/ isProcessing

\* as AllDone, without the isProcessing test
AllDone_ledgerOnly == Len(results) > 0

\* allDone: the download button is rendered
AllDone == Len(results) > 0 /\ ~isProcessing

RECURSIVE ReplaceFirst(_, _, _)
\* String.prototype.replace with a string pattern: the first occurrence only
ReplaceFirst(s, pattern, replacement) ==
    IF s = <<>> THEN <<>>
    ELSE IF Head(s) = pattern THEN <<replacement>> \o Tail(s)
    ELSE <<Head(s)>> \o ReplaceFirst(Tail(s), pattern, replacement)

\* as SuccessfulResults, without the status filter
SuccessfulResults_anyStatus(rs) == rs

\* handleDownloadZip: the entries that are packaged
SuccessfulResults(rs) == SelectSeq(rs, LAMBDA r : r.status = SUCCESS)

RECURSIVE ZipFiles(_)
\* zip.file(name, content) for each entry in turn: a later entry of the same name replaces an earlier one
ZipFiles(rs) ==
    IF rs = <<>> THEN {}
    ELSE LET last == rs[Len(rs)]
             name == ReplaceFirst(last.fileName, ".pdf", ".txt")
             rest == ZipFiles(SubSeq(rs, 1, Len(rs) - 1))
         IN  { e \in rest : e.name # name } \cup { [name |-> name, content |-> last.content] }

NoDownload == [made |-> FALSE, files |-> {}]

\* as BlankText, without trim()
BlankText_emptyOnly(pdfText) == pdfText = <<>>

\* !pdfText.trim()
BlankText(pdfText) == Trim(pdfText) = <<>>

BlankMessage == <<"Could not extract any text from the PDF. It might be an image-only PDF.">>

----------------------------------------------------------------------------
(* History of the batch started last: what the environment did to each file. *)
(* n: its number of files; attempted: how many outcomes were recorded;       *)
(* failed: the files the environment failed; last: the outcome recorded      *)
(* last; rerun, reselected: a ledger existed at the start, a selection was   *)
(* made since; keyless: started with provider B and an empty key; requests:  *)
(* the number of generateContent and fetch requests sent. A task's field     *)
(* extracted is history too: what the extractor returned for the file whose  *)
(* model call is awaited.                                                    *)

NoSummary == <<"\\none">>
NoLast == [i |-> 0, summary |-> NoSummary, why |-> "ok"]

\* what the text extractor did: it threw (a fault), or its text was blank
ExtractionWhy(outcome) ==
    IF outcome.kind = "throw" THEN "fault"
    ELSE IF Trim(ParsePdf(outcome.pages)) = <<>> THEN "blank"
    ELSE "ok"

\* what provider A did: a rejected call or a response without text is a client
\* failure; a text opening with the error marker is a marker failure
GeminiWhy(outcome) ==
    IF outcome.kind = "throw" \/ outcome.text = Undefined THEN "client"
    ELSE IF StartsWith(outcome.text, <<"Error">>) THEN "marker"
    ELSE "ok"

\* what provider B did: a rejected call, a non-2xx response, an unparsable body or a
\* body without content is a client failure
VolcanoWhy(outcome) ==
    IF \/ outcome.kind = "throw"
       \/ ~outcome.ok
       \/ ~outcome.body.parses
       \/ outcome.body.choices = <<>>
       \/ outcome.body.choices[1] \in { Undefined, <<>> }
    THEN "client"
    ELSE IF StartsWith(outcome.body.choices[1], <<"Error">>) THEN "marker"
    ELSE "ok"

\* the history after a model client sent a request over the network
Requested == [batch EXCEPT !.requests = @ + 1]

\* the history after the outcome of file i was recorded
Noted(i, summary, why) ==
    [batch EXCEPT !.attempted = @ + 1,
                  !.failed = IF why # "ok" THEN @ \cup {i} ELSE @,
                  !.last = [i |-> i, summary |-> summary, why |-> why]]

----------------------------------------------------------------------------
(* State machine *)

Init ==
    /\ files = <<>>
    /\ prompt = DefaultPrompt
    /\ apiProvider = "gemini"
    /\ selectedModel = "gemini-2.5-flash"
    /\ volcanoCreds = [apiKey |-> <<>>]
    /\ results = <<>>
    /\ isProcessing = FALSE
    /\ globalError = <<>>
    /\ apiKeyMissing \in BOOLEAN      \* useEffect on mount: !process.env.API_KEY
    /\ tasks = <<>>
    /\ download = NoDownload
    /\ batch = [n |-> 0, attempted |-> 0, failed |-> {}, rerun |-> FALSE,
                reselected |-> FALSE, last |-> NoLast, keyless |-> FALSE,
                requests |-> 0]

Config == <<prompt, apiProvider, selectedModel, volcanoCreds, apiKeyMissing>>

NotPdfNotice == <<"Some selected files were not PDFs and have been ignored.">>

\* handleFileSelect (the file input is enabled at all times)
HandleFileSelect(selectedFiles) ==
    LET allFiles == selectedFiles
        pdfFiles == PdfFiles(allFiles)
    IN  /\ globalError' = IF Len(pdfFiles) # Len(allFiles)
                          THEN NotPdfNotice
                          ELSE <<>>
        /\ files' = pdfFiles
        /\ results' = <<>>
        /\ download' = NoDownload
        /\ batch' = [batch EXCEPT !.reselected = TRUE]
        /\ UNCHANGED <<Config, isProcessing, tasks>>

\* the prompt textarea's onChange
SetPrompt(value) ==
    /\ value # prompt
    /\ prompt' = value
    /\ download' = NoDownload
    /\ UNCHANGED <<files, apiProvider, selectedModel, volcanoCreds, results,
                   isProcessing, globalError, apiKeyMissing, tasks, batch>>

\* the provider radio buttons' onChange
SetApiProvider(value) ==
    /\ value # apiProvider
    /\ apiProvider' = value
    /\ download' = NoDownload
    /\ UNCHANGED <<files, prompt, selectedModel, volcanoCreds, results,
                   isProcessing, globalError, apiKeyMissing, tasks, batch>>

\* the API key field's onChange; the field is rendered for provider B only
SetVolcanoCreds(value) ==
    /\ apiProvider = "volcano"
    /\ value # volcanoCreds.apiKey
    /\ volcanoCreds' = [apiKey |-> value]
    /\ download' = NoDownload
    /\ UNCHANGED <<files, prompt, apiProvider, selectedModel, results,
                   isProcessing, globalError, apiKeyMissing, tasks, batch>>

\* the closure of one invocation of handleGenerate, about to await parsePdf(files[0])
NewTask ==
    [files |-> files, prompt |-> prompt, apiProvider |-> apiProvider,
     selectedModel |-> selectedModel, volcanoCreds |-> volcanoCreds,
     i |-> 1, awaiting |-> "parsePdf", fullPrompt |-> <<>>, extracted |-> "ok"]

PreconditionNotice == <<"Please select a folder with PDFs and enter a prompt.">>

\* handleGenerate up to its first await
HandleGenerate ==
    IF Rejected(files, prompt)
    THEN /\ globalError' = PreconditionNotice
         /\ download' = NoDownload
         /\ UNCHANGED <<files, Config, results, isProcessing, tasks, batch>>
    ELSE /\ isProcessing' = TRUE
         /\ globalError' = <<>>
         /\ results' = InitialResults(files)
         /\ tasks' = Append(tasks, NewTask)
         /\ batch' = [n |-> Len(files), attempted |-> 0, failed |-> {},
                      rerun |-> results # <<>>, reselected |-> FALSE, last |-> NoLast,
                      keyless |-> apiProvider = "volcano" /\ volcanoCreds.apiKey = <<>>,
                      requests |-> 0]
         /\ download' = NoDownload
         /\ UNCHANGED <<files, Config>>

\* a click on the generate button
ClickGenerate == ~GenerateDisabled /\ HandleGenerate

Remove(seq, k) == SubSeq(seq, 1, k - 1) \o SubSeq(seq, k + 1, Len(seq))

\* the end of one loop iteration of task k: the next file's extraction starts, or
\* setIsProcessing(false) after the last file
EndIteration(k, threw) ==
    IF LoopContinues(tasks[k], threw)
    THEN /\ tasks' = [tasks EXCEPT ![k].i = @ + 1, ![k].awaiting = "parsePdf",
                                   ![k].fullPrompt = <<>>, ![k].extracted = "ok"]
         /\ UNCHANGED isProcessing
    ELSE /\ tasks' = Remove(tasks, k)
         /\ isProcessing' = FALSE

\* the catch block of the loop body
Catch(k, error, summary, why) ==
    /\ results' = MapError(results, tasks[k].i, ErrorMessage(error))
    /\ batch' = Noted(tasks[k].i, summary, why)
    /\ EndIteration(k, TRUE)

\* the loop body after the model client returned
OnSummary(k, summary, why) ==
    IF summary = Undefined
    THEN Catch(k, ErrorOf(<<"Cannot read properties of undefined (reading 'startsWith')">>),
               summary, why)
    ELSE IF IsErrorMarker(summary)
    THEN Catch(k, ErrorOf(summary), summary, why)
    ELSE /\ results' = MapSuccess(results, tasks[k].i, summary)
         /\ batch' = Noted(tasks[k].i, summary, why)
         /\ EndIteration(k, FALSE)

\* parsePdf settles for task k: the blank check, then the call to the selected client
ParsePdfReturn(k, outcome) ==
    LET t == tasks[k]
        pdfText == ParsePdf(outcome.pages)
        fullPrompt == ConstructFullPrompt(pdfText, t.prompt)
    IN  /\ t.awaiting = "parsePdf"
        /\ download' = NoDownload
        /\ UNCHANGED <<files, Config, globalError>>
        /\ IF outcome.kind = "throw"
           THEN Catch(k, outcome.error, NoSummary, ExtractionWhy(outcome))
           ELSE IF BlankText(pdfText)
           THEN Catch(k, ErrorOf(BlankMessage), NoSummary, ExtractionWhy(outcome))
           ELSE IF t.apiProvider = "gemini"
           THEN /\ tasks' = [tasks EXCEPT ![k].awaiting = "generateContent",
                                          ![k].fullPrompt = fullPrompt,
                                          ![k].extracted = ExtractionWhy(outcome)]
                /\ batch' = Requested
                /\ UNCHANGED <<results, isProcessing>>
           ELSE IF VolcanoKeyMissing(t.volcanoCreds)
           THEN OnSummary(k, GenerateSummaryFromVolcano(fullPrompt, t.volcanoCreds,
                                                        CHOOSE o \in FetchOutcomes : TRUE),
                          "client")
           ELSE /\ tasks' = [tasks EXCEPT ![k].awaiting = "fetch",
                                          ![k].fullPrompt = fullPrompt,
                                          ![k].extracted = ExtractionWhy(outcome)]
                /\ batch' = Requested
                /\ UNCHANGED <<results, isProcessing>>

\* generateContent settles for task k: generateSummaryFromText returns
GeminiReturn(k, outcome) ==
    LET t == tasks[k] IN
    /\ t.awaiting = "generateContent"
    /\ download' = NoDownload
    /\ UNCHANGED <<files, Config, globalError>>
    /\ OnSummary(k, GenerateSummaryFromText(t.fullPrompt, t.selectedModel, outcome),
                 GeminiWhy(outcome))

\* fetch settles for task k: generateSummaryFromVolcano returns
VolcanoReturn(k, outcome) ==
    LET t == tasks[k] IN
    /\ t.awaiting = "fetch"
    /\ download' = NoDownload
    /\ UNCHANGED <<files, Config, globalError>>
    /\ OnSummary(k, GenerateSummaryFromVolcano(t.fullPrompt, t.volcanoCreds, outcome),
                 VolcanoWhy(outcome))

NoSuccessNotice == <<"No successful summaries to download.">>

\* handleDownloadZip
HandleDownloadZip ==
    LET successfulResults == SuccessfulResults(results) IN
    IF Len(successfulResults) = 0
    THEN /\ globalError' = NoSuccessNotice
         /\ download' = NoDownload
         /\ UNCHANGED <<files, Config, results, isProcessing, tasks, batch>>
    ELSE /\ download' = [made |-> TRUE, files |-> ZipFiles(successfulResults)]
         /\ UNCHANGED <<files, Config, results, isProcessing, globalError, tasks, batch>>

\* a click on the download button, rendered when allDone
ClickDownload == AllDone /\ HandleDownloadZip

SelectFiles == \E selectedFiles \in FileLists : HandleFileSelect(selectedFiles)
EditPrompt == \E value \in Prompts : SetPrompt(value)
ChooseProvider == \E value \in {"gemini", "volcano"} : SetApiProvider(value)
EditVolcanoKey == \E value \in ApiKeys : SetVolcanoCreds(value)
ParsePdfSettles ==
    \E k \in DOMAIN tasks : \E outcome \in ExtractionOutcomes : ParsePdfReturn(k, outcome)
GeminiSettles ==
    \E k \in DOMAIN tasks : \E outcome \in GeminiOutcomes : GeminiReturn(k, outcome)
VolcanoSettles ==
    \E k \in DOMAIN tasks : \E outcome \in FetchOutcomes : VolcanoReturn(k, outcome)

Next ==
    \/ SelectFiles
    \/ EditPrompt
    \/ ChooseProvider
    \/ EditVolcanoKey
    \/ ClickGenerate
    \/ ParsePdfSettles
    \/ GeminiSettles
    \/ VolcanoSettles
    \/ ClickDownload

Spec == Init /\ [][Next]_vars

\* every extraction and every model call eventually returns or throws
Settling == WF_vars(ParsePdfSettles) /\ WF_vars(GeminiSettles) /\ WF_vars(VolcanoSettles)

FairSpec == Spec /\ Settling

\* handleGenerate invoked on an idle orchestrator without the button's guard
Run == ~isProcessing /\ HandleGenerate

NextHandler == Next \/ Run

SpecHandler == Init /\ [][NextHandler]_vars

----------------------------------------------------------------------------
(* Properties *)

Terminal(res) == res.status \in {SUCCESS, ERROR}

\* a step in which a batch starts, finishes, records the outcome of one file
BatchStarts == ~isProcessing /\ isProcessing'
BatchFinishes == isProcessing /\ ~isProcessing'
OutcomeRecorded == batch'.attempted = batch.attempted + 1

\* no entry but entry i differs after the step
OnlyEntryChanged(i) ==
    /\ DOMAIN results' = DOMAIN results
    /\ \A j \in DOMAIN results : j # i => results'[j] = results[j]

\* C1 (as claimed): when a batch has finished, exactly the entries of the files
\* that failed (blank text, extractor fault, model failure) are ERROR and every
\* other entry is SUCCESS; recording the outcome of file i changes no other entry.
C1_SequentialIsolation ==
    /\ [](( ~isProcessing /\ batch.attempted = batch.n /\ Len(results) = batch.n )
            => \A i \in 1..batch.n :
                  results[i].status = IF i \in batch.failed THEN ERROR ELSE SUCCESS)
    /\ [][OutcomeRecorded => OnlyEntryChanged(batch'.last.i)]_vars

\* C2 (as claimed): when a batch finishes, the ledger holds one entry for each of
\* the batch's files and each is SUCCESS or ERROR, whatever the user did meanwhile.
C2_NoOutcomeDropped ==
    [][BatchFinishes =>
         /\ Len(results') = batch.n
         /\ \A i \in DOMAIN results' : Terminal(results'[i])]_vars

\* C3: every started batch eventually reaches isProcessing = FALSE (given that every
\* call settles), and only once every file of the batch has been attempted.
C3_BatchRunsToCompletion ==
    /\ isProcessing ~> ~isProcessing
    /\ [][BatchFinishes => batch'.attempted = batch'.n]_vars

C3_Witness ==
    ~isProcessing /\ batch.n = 2 /\ batch.attempted = 2 /\ 1 \in batch.failed

\* C4 (as claimed): once a batch has started, the ledger keeps as many entries as
\* the batch had files, until the next batch starts.
C4_LedgerSizeFixed == batch.n > 0 => Len(results) = batch.n

\* C4 (amended): once a batch has started, the ledger keeps as many entries as the
\* batch had files until a file selection empties it; it then stays empty until the
\* next batch starts. No other action adds or removes an entry.
C4_LedgerSizeFixedUntilSelection ==
    batch.n > 0 => Len(results) = IF batch.reselected THEN 0 ELSE batch.n

C4_Witness ==
    batch.n = 2 /\ batch.attempted = 2 /\ ~isProcessing /\ batch.reselected /\ results = <<>>

\* C5 (as claimed): whenever the model client's call for file i fails in any way,
\* entry i ends ERROR with a message.
C5_ClientFailureIsError ==
    LET l == batch.last IN
    (l.why = "client" /\ l.i \in DOMAIN results)
        => (results[l.i].status = ERROR /\ "error" \in DOMAIN results[l.i])

\* C6: at most one extraction or model call is outstanding (each running invocation
\* of handleGenerate awaits exactly one), so no second batch runs beside the first;
\* the call for file i is outstanding only after the outcomes of all earlier files
\* were recorded and their entries are SUCCESS or ERROR.
C6_StrictSequencing ==
    /\ Len(tasks) <= 1
    /\ \A k \in DOMAIN tasks :
          /\ tasks[k].i = batch.attempted + 1
          /\ \A j \in DOMAIN results : j < tasks[k].i => Terminal(results[j])

C6_Witness ==
    /\ Len(tasks) = 1 /\ tasks[1].i = 2 /\ tasks[1].awaiting = "parsePdf"
    /\ Len(results) = 2 /\ Terminal(results[1])

\* C7: while a batch runs, ledger entry i carries the name of the batch's i-th file;
\* outcomes are recorded for files 1, 2, ... in turn, none skipped, and the outcome
\* of file i is written to entry i and to no other.
C7_OrderPreservation ==
    /\ [](\A k \in DOMAIN tasks : \A i \in DOMAIN results :
              results[i].fileName = tasks[k].files[i].name)
    /\ [][OutcomeRecorded =>
            LET i == batch.attempted + 1 IN
            /\ batch'.last.i = i
            /\ OnlyEntryChanged(i)
            /\ i \in DOMAIN results => Terminal(results'[i])]_vars

C7_Witness ==
    /\ isProcessing /\ Len(results) = 2
    /\ results[1].fileName # results[2].fileName
    /\ results[1].status = SUCCESS /\ results[2].status = PROCESSING

\* C8: right after a batch starts the ledger is one entry per selected file, in
\* order, each PROCESSING with empty content and no error, whatever it held before.
C8_FreshLedger ==
    [][BatchStarts =>
         /\ Len(results') = Len(files)
         /\ \A i \in DOMAIN results' :
               /\ results'[i].fileName = files[i].name
               /\ results'[i].status = PROCESSING
               /\ results'[i].content = <<>>
               /\ "error" \notin DOMAIN results'[i]]_vars

C8_Witness == isProcessing /\ batch.rerun /\ batch.attempted = 0

\* C9: a generate request made with no files or a blank prompt sets the notice and
\* changes nothing else (ledger, isProcessing = FALSE, no call started, history);
\* and no batch starts from such a request.
C9_PreconditionGuard ==
    [][ /\ (globalError' = PreconditionNotice /\ globalError # PreconditionNotice)
            => /\ Len(files) = 0 \/ Trim(prompt) = <<>>
               /\ ~isProcessing'
               /\ UNCHANGED <<files, Config, results, isProcessing, tasks, batch>>
        /\ BatchStarts => (Len(files) > 0 /\ Trim(prompt) # <<>>) ]_vars

C9_Witness ==
    globalError = PreconditionNotice /\ Trim(prompt) = <<>> /\ Len(results) = 2

\* C10: whenever the model client returns a text that begins with "Error", entry i
\* is ERROR, its error is exactly that text and its content is empty.
C10_ErrorMarker ==
    LET l == batch.last IN
    (StartsWith(l.summary, <<"Error">>) /\ l.i \in DOMAIN results)
        => /\ results[l.i].status = ERROR
           /\ "error" \in DOMAIN results[l.i]
           /\ results[l.i].error = l.summary
           /\ results[l.i].content = <<>>

C10_Witness ==
    /\ batch.last.summary = MarkerText /\ batch.last.i \in DOMAIN results
    /\ results[batch.last.i].status = ERROR


\* C11: a batch started with provider B and an empty credential sends no request
\* over the network: its task never awaits a fetch, every summary its client returns
\* is the client's own failure text, and once all its files were attempted every
\* entry the ledger holds is ERROR.
C11_KeylessBatchSendsNothing ==
    batch.keyless =>
        /\ batch.requests = 0
        /\ \A k \in DOMAIN tasks : tasks[k].awaiting = "parsePdf"
        /\ batch.last.summary # NoSummary =>
              /\ StartsWith(batch.last.summary, <<"Error">>)
              /\ batch.last.why = "client"
        /\ (~isProcessing /\ batch.attempted = batch.n) =>
              \A i \in DOMAIN results : results[i].status = ERROR

C11_Witness ==
    /\ batch.keyless /\ ~isProcessing
    /\ batch.n = 2 /\ batch.attempted = 2 /\ Len(results) = 2
    /\ batch.last.summary # NoSummary
    /\ results[1].status = ERROR /\ results[2].status = ERROR


\* the name of a source file with its ".pdf" suffix replaced by ".txt"
SuffixTxt(fileName) ==
    IF fileName # <<>> /\ fileName[Len(fileName)] = ".pdf"
    THEN SubSeq(fileName, 1, Len(fileName) - 1) \o <<".txt">>
    ELSE fileName

Succeeded == { i \in DOMAIN results : results[i].status = SUCCESS }

ArtifactOf(res) == [name |-> SuffixTxt(res.fileName), content |-> res.content]

\* C12: an archive produced by an export holds exactly one artifact per SUCCESS
\* entry of the ledger and none for any other entry, each named after its source
\* file with ".pdf" replaced by ".txt" and holding the entry's content, also when
\* two entries have the same file name.
C12_OneArtifactPerSuccess ==
    download.made =>
        /\ Cardinality(download.files) = Cardinality(Succeeded)
        /\ \A i \in Succeeded : ArtifactOf(results[i]) \in download.files
        /\ \A e \in download.files : \E i \in Succeeded : e = ArtifactOf(results[i])


\* C13: an export on a ledger without a SUCCESS entry sets the notice "No successful
\* summaries to download." and produces no archive; an export on any other ledger
\* produces an archive; either way the ledger, the selected files and the
\* processing flag are left as they were.
C13_ExportOutcomes ==
    [][ClickDownload =>
          /\ IF Succeeded = {}
             THEN globalError' = NoSuccessNotice /\ ~download'.made
             ELSE download'.made /\ globalError' = globalError
          /\ UNCHANGED <<results, files, isProcessing>>]_vars

C13_Witness ==
    /\ globalError = NoSuccessNotice /\ ~download.made
    /\ Len(results) = 2 /\ Succeeded = {} /\ ~isProcessing


\* a step with an outcome of handleDownloadZip: an archive, or the notice newly set
ExportOutcome ==
    \/ download'.made
    \/ globalError' = NoSuccessNotice /\ globalError # NoSuccessNotice

\* C14: an export takes place only while no batch is running and the ledger is not
\* empty: no step yields an archive (or the export's notice) while isProcessing is
\* true or the ledger is empty, and the step leaves the app idle.
C14_ExportGating ==
    [][ExportOutcome => ~isProcessing /\ ~isProcessing' /\ Len(results) > 0]_vars

C14_Witness ==
    /\ download.made /\ ~isProcessing
    /\ Len(results) = 2 /\ Cardinality(Succeeded) = 1


\* the selected provider has what it needs: the configured key for provider A, a
\* non-empty key in the field for provider B
CredentialSatisfied ==
    /\ apiProvider = "gemini" => ~apiKeyMissing
    /\ apiProvider = "volcano" => volcanoCreds.apiKey # <<>>

\* C15: no batch starts (isProcessing becomes true, a ledger is initialised) in a
\* state where the selected provider's credential requirement is unsatisfied.
C15_CredentialPrecondition ==
    [][(BatchStarts \/ batch'.n # batch.n \/ batch'.attempted < batch.attempted)
          => CredentialSatisfied]_vars

C15_Witness ==
    /\ isProcessing /\ batch.attempted = 0 /\ apiKeyMissing
    /\ \E k \in DOMAIN tasks :
          /\ tasks[k].apiProvider = "volcano"
          /\ tasks[k].volcanoCreds.apiKey # <<>>
          /\ tasks[k].awaiting = "parsePdf"


\* the positions of the PDF-typed files in a selection, and the j-th of them
PdfIndexes(sel) == { i \in DOMAIN sel : sel[i].type = PdfType }
NthPdf(sel, j) ==
    CHOOSE i \in PdfIndexes(sel) : Cardinality({ x \in PdfIndexes(sel) : x < i }) = j - 1

\* C16: after a selection of files, the selected batch is the subsequence of the
\* chosen files whose type is PDF, in their original order, and the notice is the
\* "not PDFs" notice if at least one chosen file was dropped, empty otherwise.
C16_PdfFiltering ==
    [][\A sel \in FileLists :
          HandleFileSelect(sel) =>
              /\ Len(files') = Cardinality(PdfIndexes(sel))
              /\ \A j \in DOMAIN files' : files'[j] = sel[NthPdf(sel, j)]
              /\ globalError' = IF Cardinality(PdfIndexes(sel)) < Len(sel)
                                THEN NotPdfNotice ELSE <<>>]_vars

C16_Witness ==
    /\ globalError = NotPdfNotice /\ batch.reselected
    /\ Len(files) = 1 /\ files[1].type = PdfType /\ results = <<>>


\* an entry changes only from PROCESSING to SUCCESS or to ERROR
ChangesOnce(j) ==
    results'[j] # results[j] => results[j].status = PROCESSING /\ Terminal(results'[j])

\* C17: within a batch an entry of the ledger changes at most once, from PROCESSING
\* to SUCCESS or to ERROR, and a terminal entry stays in the ledger with its status,
\* content and error in every step that does not start a new batch.
C17_TerminalUntilNextBatch ==
    [][~BatchStarts =>
          \A j \in DOMAIN results :
              /\ Terminal(results[j]) => j \in DOMAIN results'
              /\ j \in DOMAIN results' => ChangesOnce(j)]_vars

\* C17, amended: as above, except that a selection of files also ends an entry: it
\* empties the ledger. A step that does not start a batch either keeps every entry,
\* changing it at most from PROCESSING to a terminal status, or is a selection that
\* leaves the ledger empty.
C17_TerminalIsFinal ==
    [][~BatchStarts =>
          \/ /\ DOMAIN results' = DOMAIN results
             /\ \A j \in DOMAIN results : ChangesOnce(j)
          \/ results' = <<>> /\ batch'.reselected /\ UNCHANGED tasks]_vars

C17_Witness ==
    /\ ~isProcessing /\ batch.attempted = 2 /\ Len(results) = 2 /\ ~batch.reselected
    /\ results[1].status = SUCCESS /\ results[1].content = SummaryText
    /\ results[2].status = ERROR


\* C18: in every reachable state each entry's fields agree with its status: the
\* entry is SUCCESS exactly when its content is not empty (an empty response of
\* either model client never yields SUCCESS), and it carries an error message
\* exactly when it is ERROR.
C18_FieldsAgreeWithStatus ==
    \A i \in DOMAIN results :
        /\ results[i].status = SUCCESS <=> results[i].content # <<>>
        /\ "error" \in DOMAIN results[i] <=> results[i].status = ERROR


\* C19: when the text extracted from file i is empty or holds only whitespace, no
\* model client is called for file i (no task awaits a client with a blank text, no
\* summary is recorded, no request is sent), entry i becomes ERROR with the
\* no-extractable-text message, and the loop goes on to file i+1, or ends the batch
\* after the last file.
C19_BlankExtraction ==
    /\ [](\A k \in DOMAIN tasks :
              tasks[k].awaiting # "parsePdf" => tasks[k].extracted = "ok")
    /\ [][(OutcomeRecorded /\ batch'.last.why = "blank") =>
             LET i == batch'.last.i IN
             /\ batch'.last.summary = NoSummary
             /\ batch'.requests = batch.requests
             /\ i \in DOMAIN results =>
                   /\ results'[i].status = ERROR
                   /\ results'[i].error = BlankMessage
             /\ IF i < batch.n
                THEN /\ isProcessing'
                     /\ \E k \in DOMAIN tasks' :
                           tasks'[k].i = i + 1 /\ tasks'[k].awaiting = "parsePdf"
                ELSE ~isProcessing' /\ tasks' = <<>>]_vars

C19_Witness ==
    /\ isProcessing /\ batch.n = 2 /\ batch.attempted = 1 /\ batch.requests = 0
    /\ batch.last.why = "blank" /\ Len(results) = 2
    /\ results[1].status = ERROR /\ results[1].error = BlankMessage
    /\ \E k \in DOMAIN tasks : tasks[k].i = 2 /\ tasks[k].awaiting = "parsePdf"


\* what an invocation of handleGenerate captured when it started
Closure(t) == <<t.files, t.prompt, t.apiProvider, t.selectedModel, t.volcanoCreds>>

\* the call a task awaits goes to the client of its own provider, with a prompt
\* built from its own prompt
CallsOwnClient(t, client, provider) ==
    t.awaiting = client =>
        /\ t.apiProvider = provider
        /\ \E d \in PdfDocuments :
              t.fullPrompt = ConstructFullPrompt(ParsePdf(d), t.prompt)

\* C20: a running batch works on the files, provider, model, prompt and credential
\* that were set when it started: its task captures them at the start, nothing
\* changes them while it runs (whatever is selected or edited meanwhile), every call
\* goes to the captured provider's client with the captured prompt, and the batch
\* finishes after exactly the captured files.
C20_ConfigurationSnapshot ==
    /\ [][BatchStarts =>
             \E k \in DOMAIN tasks' :
                 /\ tasks'[k].i = 1
                 /\ Closure(tasks'[k]) =
                       <<files, prompt, apiProvider, selectedModel, volcanoCreds>>]_vars
    /\ [][\A k \in DOMAIN tasks \cap DOMAIN tasks' :
             Closure(tasks'[k]) = Closure(tasks[k])]_vars
    /\ [](\A k \in DOMAIN tasks :
             /\ tasks[k].i \in DOMAIN tasks[k].files
             /\ CallsOwnClient(tasks[k], "generateContent", "gemini")
             /\ CallsOwnClient(tasks[k], "fetch", "volcano"))
    /\ [][BatchFinishes =>
             \A k \in DOMAIN tasks : batch'.attempted = Len(tasks[k].files)]_vars

C20_Witness ==
    /\ isProcessing
    /\ \E k \in DOMAIN tasks :
          LET t == tasks[k] IN
          /\ t.i = 2 /\ t.awaiting = "generateContent"
          /\ files # t.files /\ prompt # t.prompt
          /\ apiProvider # t.apiProvider /\ volcanoCreds # t.volcanoCreds


\* C21: in every reachable state where no batch is running, no entry of the ledger
\* is PROCESSING: every entry is SUCCESS or ERROR; in particular this is so whenever
\* the download button is offered (the ledger is not empty and no batch is running).
C21_NoProcessingWhenIdle ==
    ~isProcessing => \A i \in DOMAIN results : Terminal(results[i])

C21_Witness ==
    /\ ~isProcessing /\ Len(results) = 2 /\ batch.attempted = 2 /\ tasks = <<>>
    /\ results[1].status = ERROR /\ results[2].status = SUCCESS


\* C22: the ids of the entries of the ledger are pairwise distinct, whatever files
\* were selected, also when two of them share a name and a last-modified timestamp.
C22_IdsDistinct ==
    \A i, j \in DOMAIN results : results[i].id = results[j].id => i = j

====
